---- MODULE Spec2Model ----
(***************************************************************************)
(* Collaborative whiteboard: the server's global history with undo / redo  *)
(* / clear, the socket.io fan-out, and the client board that mirrors the   *)
(* history (canvas.js + websocket.js).                                     *)
(*                                                                         *)
(* Two server programs are in the repository.  Spec is the system with the *)
(* server that replies undo:empty / redo:empty, relays the live previews   *)
(* and sends init:history; SpecAlt is the same boards against the other    *)
(* server program (the AltOn... handlers).                                 *)
(*                                                                         *)
(* Further specifications look at parts of the same system.  SpecLog is    *)
(* Spec with the structural events the server handles written to a log;    *)
(* SpecCursor is Spec with the cursor events; SpecBoard is two pages that  *)
(* only draw, with longer strokes and a record of what each page emits;    *)
(* SpecLifo applies the undo and redo handlers to a given History;         *)
(* SpecSync applies syncHistory to a given board and snapshot.             *)
(*                                                                         *)
(* A stroke is modelled by its id and its points; color and size are       *)
(* opaque payload fields that every handler copies verbatim and no         *)
(* handler reads, so they are left out of the records.  Presence           *)
(* (users:update and the cursor events) is carried by separate events that *)
(* never touch the history, the redo stack or the board's stroke state;    *)
(* the cursor events are modelled under SpecCursor.                        *)
(*                                                                         *)
(* The transport is socket.io: one FIFO channel per connection and         *)
(* direction.  io.emit appends to the channel of every connected socket,   *)
(* socket.broadcast.emit to every connected socket but the sender,         *)
(* socket.emit to the sender alone.  Payloads are serialised when they are *)
(* emitted, so a message carries the value of that moment.                 *)
(***************************************************************************)
EXTENDS Integers, Sequences, FiniteSets, TLC

\* ------------------------------------------------------------------ bounds
\* Strokes a run may start (ids minted by crypto.randomUUID()).
MaxStrokes == 2
\* Points a local stroke may collect before the pointer is released.
MaxLen == 2
\* Capacity of a channel server -> client (events in flight to one socket).
MaxQueue == 2
\* Capacity of a channel client -> server (events in flight from one socket).
MaxSend == 1
\* Presses of the undo / redo / clear buttons in a run, all pages together.
MaxClicks == 2
\* Points a stroke may collect under SpecBoard, where the pages only draw.
MaxPoints == 3
\* cursor:move events the pages emit in a run, all pages together (SpecCursor).
MaxHovers == 1
\* Strokes in a snapshot given to syncHistory (SpecSync).
MaxSnapshot == 2
\* Strokes in the History a run of undos and redos starts from (SpecLifo).
MaxHistory == 3

\* --------------------------------------------------------------- constants
\* The throttle window of _move: now - this.lastEmit > 30.
ThrottleMs == 30
\* _drawSmooth paints nothing for fewer points than this: pts.length < 2.
MinPath == 2

\* The two browser pages of the spec's scenarios.
Clients == {"A", "B"}
\* Pointer positions (_getPos results).
Positions == {"p"}
\* Time between a pointer-move and the page's last emitted draw:move: exactly
\* the throttle window (no emission) or just past it (emission).
Delays == {ThrottleMs, ThrottleMs + 1}
\* Date.now() at the first pointer-move of a page: any value past the
\* throttle window, so that move is always emitted (lastEmit starts at 0).
StartTime == ThrottleMs + 1

Ids == 1..MaxStrokes
\* this._localTempId = null
Null == 0
NoStroke == [id |-> Null, points |-> <<>>]

VARIABLES
    users,          \* server: keys of `users` (the connected sockets)
    globalHistory,  \* server: committed strokes
    redoStack,      \* server: undone strokes waiting for redo
    toServer,       \* channel client -> server, per page
    toClient,       \* channel server -> client, per page
    strokes,        \* board: local mirror of globalHistory
    currentStroke,  \* board: points of the in-progress local stroke
    isDrawing,      \* board
    localTempId,    \* board: this._localTempId
    lastEmit,       \* board: this.lastEmit (undefined is normalised to 0)
    remoteStrokes,  \* board: remote in-progress strokes keyed by stroke id
                    \* (a set of strokes, at most one per id)
    nextId,         \* next id crypto.randomUUID() returns
    clicks,         \* button presses so far
    log,            \* record of the run, not program state: the structural
                    \* events the server has handled, in the order it
                    \* handled them (kept under SpecLog only)
    emitted,        \* record of the run, not program state: the events
                    \* each page has emitted since its last draw:end (kept
                    \* under SpecBoard only)
    moved,          \* record of the run, not program state: the pointer-
                    \* moves each page has received since its last
                    \* pointer-down (kept under SpecBoard only)
    hovers,         \* SpecCursor only: cursor:move events emitted so far
    lifo,           \* SpecLifo only: a timeline under a run of undos and
                    \* redos, with the History it started from
    canvas          \* SpecSync only: a board with its three layers, a
                    \* blank board beside it, and the snapshot both are given

vars == <<users, globalHistory, redoStack, toServer, toClient, strokes,
          currentStroke, isDrawing, localTempId, lastEmit, remoteStrokes,
          nextId, clicks, log, emitted, moved, hovers, lifo, canvas>>

\* The variables of the whiteboard itself.
sysVars == <<users, globalHistory, redoStack, toServer, toClient, strokes,
             currentStroke, isDrawing, localTempId, lastEmit, remoteStrokes,
             nextId, clicks>>

serverVars == <<users, globalHistory, redoStack>>
boardVars == <<strokes, currentStroke, isDrawing, localTempId, lastEmit,
               remoteStrokes>>

\* ---------------------------------------------------------------- messages
\* type, stroke and history are the event name and its payload.  from and seq
\* are not on the wire: they record the page that emitted the event and, for
\* a live preview event, its rank among the previews of that page (seq grows
\* with every draw:start and draw:move a page emits).
Msg(t, s, h, c, n) ==
    [type |-> t, stroke |-> s, history |-> h, from |-> c, seq |-> n]
HistoryMsg(t, h) == Msg(t, NoStroke, h, "server", 0)
SignalMsg(t, c) == Msg(t, NoStroke, <<>>, c, 0)

\* Rank of the preview event of stroke id that brings it to k points.
Rank(id, k) == id * (MaxPoints + 1) + k

Last(q) == q[Len(q)]
Front(q) == SubSeq(q, 1, Len(q) - 1)

\* Room for k more events on the channel to every socket in S.
Room(S, k) == \A d \in S : Len(toClient[d]) + k <= MaxQueue

\* The server emits msgs, in that order, to the sockets in S.
Deliver(S, msgs) ==
    toClient' = [d \in Clients |->
                    IF d \in S THEN toClient[d] \o msgs ELSE toClient[d]]

\* io.emit: every connected socket.
Everyone == users
\* socket.broadcast.emit: every connected socket but the sender's.
Others(c) == users \ {c}
\* socket.emit: the sender's socket.
Only(c) == {c}

\* The server takes the next event of connection c off the wire.
Takes(c, t) ==
    /\ c \in users
    /\ toServer[c] # <<>>
    /\ Head(toServer[c]).type = t
    /\ toServer' = [toServer EXCEPT ![c] = Tail(@)]

\* The board takes the next event off its socket.
Gets(c, t) ==
    /\ toClient[c] # <<>>
    /\ Head(toClient[c]).type = t
    /\ toClient' = [toClient EXCEPT ![c] = Tail(@)]

\* this.socket.emit(...) on the board; socket.io holds the event until the
\* socket is connected.
Emit(c, m) ==
    /\ Len(toServer[c]) < MaxSend
    /\ toServer' = [toServer EXCEPT ![c] = Append(@, m)]

\* No one is connected, nothing is drawn.
Started ==
    /\ users = {}
    /\ globalHistory = <<>>
    /\ redoStack = <<>>
    /\ toServer = [c \in Clients |-> <<>>]
    /\ toClient = [c \in Clients |-> <<>>]
    /\ strokes = [c \in Clients |-> <<>>]
    /\ currentStroke = [c \in Clients |-> <<>>]
    /\ isDrawing = [c \in Clients |-> FALSE]
    /\ localTempId = [c \in Clients |-> Null]
    /\ lastEmit = [c \in Clients |-> 0]
    /\ remoteStrokes = [c \in Clients |-> {}]
    /\ nextId = 1
    /\ clicks = 0
    /\ log = <<>>
    /\ emitted = [c \in Clients |-> <<>>]
    /\ moved = [c \in Clients |-> 0]
    /\ hovers = 0

\* A run of undos and redos on the timeline (h, <<>>), none handled yet.
Trial(h) == [start |-> h, undos |-> 0, redos |-> 0, history |-> h,
             redo |-> <<>>]

\* A board as syncHistory sees it: the mirror and what is painted on the
\* history, remote-preview and local-live layers (the paths painted since the
\* layer was last cleared, oldest first).
Board(m, h, r, l) == [strokes |-> m, hctx |-> h, rctx |-> r, lctx |-> l]

\* new CanvasBoard(): empty mirror, blank layers.
Blank == Board(<<>>, <<>>, <<>>, <<>>)

\* What a socket listener may be handed as a history: an array of strokes, or
\* something that is not an array.
Array(h) == [array |-> TRUE, items |-> h]
NotArray == [array |-> FALSE, items |-> <<>>]

\* Board b and a blank board, both about to be given snapshot h: the board
\* as it was before the first call, as it is, and as the first call left it.
Sitting(b, h) == [before |-> b, board |-> b, other |-> Blank, snapshot |-> h,
                  calls |-> 0, once |-> b]

Init ==
    /\ Started
    /\ lifo = Trial(<<>>)
    /\ canvas = Sitting(Blank, Array(<<>>))

\* ------------------------------------------------- board: local drawing
\* crypto.randomUUID(): an id no stroke has had before.
randomUUID == nextId

\* _start(e): pointer down at position p.
_start(c, p) ==
    /\ nextId <= MaxStrokes
    /\ isDrawing' = [isDrawing EXCEPT ![c] = TRUE]
    /\ currentStroke' = [currentStroke EXCEPT ![c] = <<p>>]
    /\ localTempId' = [localTempId EXCEPT ![c] = randomUUID]
    /\ nextId' = nextId + 1
    /\ Emit(c, Msg("draw:start", [id |-> randomUUID, points |-> <<p>>],
                   <<>>, c, Rank(randomUUID, 1)))
    /\ UNCHANGED <<serverVars, toClient, strokes, lastEmit, remoteStrokes,
                   clicks>>

\* Date.now() as _move reads it, dt after the page's last emitted move.
Now(c, dt) == IF lastEmit[c] = 0 THEN StartTime ELSE lastEmit[c] + dt

\* A throttle that lets a move through when the window has just closed
\* (>= 30 instead of > 30).
AtThrottle(c, now) == now - lastEmit[c] >= ThrottleMs

\* The throttle test of _move: now - this.lastEmit > 30.
PastThrottle(c, now) == now - lastEmit[c] > ThrottleMs

\* The stroke of page c has fewer than n points: the person may go on.
Within(c, n) == Len(currentStroke[c]) < n

\* _move(e): pointer move to position p.  Returns at once unless a stroke is
\* in progress.
_move(c, p, dt) ==
    /\ isDrawing[c]
    /\ currentStroke' = [currentStroke EXCEPT ![c] = Append(@, p)]
    /\ IF PastThrottle(c, Now(c, dt))
          THEN /\ Emit(c, Msg("draw:move",
                              [id |-> localTempId[c], points |-> <<p>>],
                              <<>>, c,
                              Rank(localTempId[c], Len(currentStroke[c]) + 1)))
               /\ lastEmit' = [lastEmit EXCEPT ![c] = Now(c, dt)]
          ELSE UNCHANGED <<toServer, lastEmit>>
    /\ UNCHANGED <<serverVars, toClient, strokes, isDrawing, localTempId,
                   remoteStrokes, nextId, clicks>>

\* The stroke _end commits: { id: this._localTempId || crypto.randomUUID(),
\* points: [...this.currentStroke] }.
EndStroke(c) ==
    [id |-> IF localTempId[c] # Null THEN localTempId[c] ELSE randomUUID,
     points |-> currentStroke[c]]

\* _end without `this.isDrawing = false` and `this._localTempId = null`: the
\* next pointer-up commits the same stroke again.
EndKeepsDrawing(c) ==
    /\ isDrawing[c]
    /\ localTempId[c] = Null => nextId <= MaxStrokes
    /\ strokes' = [strokes EXCEPT ![c] = Append(@, EndStroke(c))]
    /\ Emit(c, Msg("draw:end", EndStroke(c), <<>>, c, 0))
    /\ nextId' = IF localTempId[c] = Null THEN nextId + 1 ELSE nextId
    /\ UNCHANGED <<serverVars, toClient, currentStroke, isDrawing,
                   localTempId, lastEmit, remoteStrokes, clicks>>

\* _end(): pointer up.  Returns at once unless a stroke is in progress.
_end(c) ==
    /\ isDrawing[c]
    /\ localTempId[c] = Null => nextId <= MaxStrokes
    /\ isDrawing' = [isDrawing EXCEPT ![c] = FALSE]
    /\ strokes' = [strokes EXCEPT ![c] = Append(@, EndStroke(c))]
    /\ Emit(c, Msg("draw:end", EndStroke(c), <<>>, c, 0))
    /\ currentStroke' = [currentStroke EXCEPT ![c] = <<>>]
    /\ localTempId' = [localTempId EXCEPT ![c] = Null]
    /\ nextId' = IF localTempId[c] = Null THEN nextId + 1 ELSE nextId
    /\ UNCHANGED <<serverVars, toClient, lastEmit, remoteStrokes, clicks>>

\* The events of the three buttons.
Buttons == {"undo", "redo", "clear:board"}

\* The undo / redo / clear buttons: emitUndo, emitRedo, emitClear.
Click(c, t) ==
    /\ clicks < MaxClicks
    /\ clicks' = clicks + 1
    /\ Emit(c, SignalMsg(t, c))
    /\ UNCHANGED <<serverVars, toClient, boardVars, nextId>>

\* ------------------------------------------------ board: incoming events
\* syncHistory(history): this.strokes = history.slice().
syncHistory(c, history) ==
    strokes' = [strokes EXCEPT ![c] = history]

\* startRemoteStroke(data): this.remoteStrokes[data.id] = { ...data };
\* nothing for a payload without an id.
startRemoteStroke(c, data) ==
    remoteStrokes' = [remoteStrokes EXCEPT ![c] =
        IF data.id = Null THEN @
        ELSE {s \in @ : s.id # data.id} \cup {data}]

\* updateRemoteStroke(data): s.points.push(...data.points) for the tracked
\* stroke of that id; nothing for an untracked id.  (A draw:move without an
\* id would go to the first tracked stroke; _move always sends the id.)
updateRemoteStroke(c, data) ==
    remoteStrokes' = [remoteStrokes EXCEPT ![c] =
        {IF s.id = data.id
            THEN [s EXCEPT !.points = @ \o data.points] ELSE s : s \in @}]

\* commitRemoteStroke(stroke): this.strokes.push(stroke) and
\* delete this.remoteStrokes[stroke.id].
commitRemoteStroke(c, stroke) ==
    /\ strokes' = [strokes EXCEPT ![c] = Append(@, stroke)]
    /\ remoteStrokes' = [remoteStrokes EXCEPT ![c] =
                            {s \in @ : s.id # stroke.id}]

\* socket.on("init:history")
OnInitHistory(c) ==
    /\ Gets(c, "init:history")
    /\ syncHistory(c, Head(toClient[c]).history)
    /\ UNCHANGED <<serverVars, toServer, currentStroke, isDrawing,
                   localTempId, lastEmit, remoteStrokes, nextId, clicks>>

\* socket.on("sync:history")
OnSyncHistory(c) ==
    /\ Gets(c, "sync:history")
    /\ syncHistory(c, Head(toClient[c]).history)
    /\ UNCHANGED <<serverVars, toServer, currentStroke, isDrawing,
                   localTempId, lastEmit, remoteStrokes, nextId, clicks>>

\* socket.on("draw:start")
OnRemoteStart(c) ==
    /\ Gets(c, "draw:start")
    /\ startRemoteStroke(c, Head(toClient[c]).stroke)
    /\ UNCHANGED <<serverVars, toServer, strokes, currentStroke, isDrawing,
                   localTempId, lastEmit, nextId, clicks>>

\* socket.on("draw:move")
OnRemoteMove(c) ==
    /\ Gets(c, "draw:move")
    /\ updateRemoteStroke(c, Head(toClient[c]).stroke)
    /\ UNCHANGED <<serverVars, toServer, strokes, currentStroke, isDrawing,
                   localTempId, lastEmit, nextId, clicks>>

\* socket.on("draw:end")
OnRemoteEnd(c) ==
    /\ Gets(c, "draw:end")
    /\ commitRemoteStroke(c, Head(toClient[c]).stroke)
    /\ UNCHANGED <<serverVars, toServer, currentStroke, isDrawing,
                   localTempId, lastEmit, nextId, clicks>>

\* undo:empty and redo:empty have no listener: the event is dropped.
OnUndoEmpty(c) ==
    /\ Gets(c, "undo:empty")
    /\ UNCHANGED <<serverVars, toServer, boardVars, nextId, clicks>>

OnRedoEmpty(c) ==
    /\ Gets(c, "redo:empty")
    /\ UNCHANGED <<serverVars, toServer, boardVars, nextId, clicks>>

\* The page of c goes away (closed or reloaded): its board is gone, and the
\* next connection of c starts from a new CanvasBoard.
PageGone(c) ==
    /\ strokes' = [strokes EXCEPT ![c] = <<>>]
    /\ currentStroke' = [currentStroke EXCEPT ![c] = <<>>]
    /\ isDrawing' = [isDrawing EXCEPT ![c] = FALSE]
    /\ localTempId' = [localTempId EXCEPT ![c] = Null]
    /\ lastEmit' = [lastEmit EXCEPT ![c] = 0]
    /\ remoteStrokes' = [remoteStrokes EXCEPT ![c] = {}]
    /\ toServer' = [toServer EXCEPT ![c] = <<>>]
    /\ toClient' = [toClient EXCEPT ![c] = <<>>]

\* ------------------------------------------------------------- the server
\* The server's timeline is the pair (globalHistory, redoStack); each
\* structural handler maps it to a new pair.
Timeline(h, r) == [history |-> h, redo |-> r]

\* A commit that forgets `redoStack = []`.
CommitKeepsRedo(h, r, s) == Timeline(Append(h, s), r)

\* draw:end: globalHistory.push(stroke); redoStack = [].
CommitResult(h, r, s) == Timeline(Append(h, s), <<>>)

\* An undo that takes the oldest stroke (shift()) instead of the newest.
UndoTakesFirst(h, r) ==
    IF h # <<>> THEN Timeline(Tail(h), Append(r, Head(h)))
    ELSE Timeline(h, r)

\* undo: const last = globalHistory.pop(); if (last) redoStack.push(last).
\* Every stroke a board emits is an object, so `last` is falsy exactly when
\* the history was empty (pop() gave undefined).
UndoResult(h, r) ==
    IF h # <<>> THEN Timeline(Front(h), Append(r, Last(h)))
    ELSE Timeline(h, r)

\* A redo that reads the top of the redo stack without popping it.
RedoKeepsStack(h, r) ==
    IF r # <<>> THEN Timeline(Append(h, Last(r)), r)
    ELSE Timeline(h, r)

\* redo: const item = redoStack.pop(); if (item) globalHistory.push(item).
RedoResult(h, r) ==
    IF r # <<>> THEN Timeline(Append(h, Last(r)), Front(r))
    ELSE Timeline(h, r)

\* A clear that forgets `redoStack = []`.
ClearKeepsRedo(h, r) == Timeline(<<>>, r)

\* clear:board: globalHistory = []; redoStack = [].
ClearResult(h, r) == Timeline(<<>>, <<>>)

\* init:history through io.emit, undo's snapshot and the previews through the
\* wrong one of socket.broadcast.emit and io.emit.
InitAudienceAll(c) == users \cup {c}
PreviewAudienceAll(c) == Everyone
UndoAudienceOthers(c) == Others(c)

\* Who is sent what.
InitAudience(c) == Only(c)
PreviewAudience(c) == Others(c)
CommitAudience(c) == Everyone
UndoAudience(c) == Everyone
RedoAudience(c) == Everyone
ClearAudience(c) == Everyone
EmptyAudience(c) == Only(c)

\* A draw:end handler that sends the snapshot it took before the push.
CommitEventsStale(ev, h) == <<ev, HistoryMsg("sync:history", Front(h))>>

\* A draw:end handler that does not send the snapshot.
CommitEventsNoSync(ev, h) == <<ev>>

\* What the draw:end handler emits, in order.
CommitEvents(ev, h) == <<ev, HistoryMsg("sync:history", h)>>

\* io.on("connection"): a socket of page c connects.
OnConnection(c) ==
    /\ c \notin users
    /\ users' = users \cup {c}
    /\ Room(InitAudience(c), 1)
    /\ Deliver(InitAudience(c), <<HistoryMsg("init:history", globalHistory)>>)
    /\ UNCHANGED <<globalHistory, redoStack, toServer, boardVars, nextId,
                   clicks>>

\* socket.on("draw:start"): socket.broadcast.emit("draw:start", data)
OnDrawStart(c) ==
    /\ Takes(c, "draw:start")
    /\ Room(PreviewAudience(c), 1)
    /\ Deliver(PreviewAudience(c), <<Head(toServer[c])>>)
    /\ UNCHANGED <<serverVars, boardVars, nextId, clicks>>

\* socket.on("draw:move"): socket.broadcast.emit("draw:move", data)
OnDrawMove(c) ==
    /\ Takes(c, "draw:move")
    /\ Room(PreviewAudience(c), 1)
    /\ Deliver(PreviewAudience(c), <<Head(toServer[c])>>)
    /\ UNCHANGED <<serverVars, boardVars, nextId, clicks>>

\* socket.on("draw:end")
OnDrawEnd(c) ==
    LET res == CommitResult(globalHistory, redoStack, Head(toServer[c]).stroke)
    IN  /\ Takes(c, "draw:end")
        /\ Room(CommitAudience(c), 2)
        /\ globalHistory' = res.history
        /\ redoStack' = res.redo
        /\ Deliver(CommitAudience(c), CommitEvents(Head(toServer[c]), res.history))
        /\ UNCHANGED <<users, boardVars, nextId, clicks>>

\* socket.on("undo")
OnUndo(c) ==
    LET res == UndoResult(globalHistory, redoStack)
    IN  /\ Takes(c, "undo")
        /\ globalHistory' = res.history
        /\ redoStack' = res.redo
        /\ IF globalHistory # <<>>
              THEN /\ Room(UndoAudience(c), 1)
                   /\ Deliver(UndoAudience(c),
                              <<HistoryMsg("sync:history", res.history)>>)
              ELSE /\ Room(EmptyAudience(c), 1)
                   /\ Deliver(EmptyAudience(c), <<SignalMsg("undo:empty", "server")>>)
        /\ UNCHANGED <<users, boardVars, nextId, clicks>>

\* socket.on("redo")
OnRedo(c) ==
    LET res == RedoResult(globalHistory, redoStack)
    IN  /\ Takes(c, "redo")
        /\ globalHistory' = res.history
        /\ redoStack' = res.redo
        /\ IF redoStack # <<>>
              THEN /\ Room(RedoAudience(c), 1)
                   /\ Deliver(RedoAudience(c),
                              <<HistoryMsg("sync:history", res.history)>>)
              ELSE /\ Room(EmptyAudience(c), 1)
                   /\ Deliver(EmptyAudience(c), <<SignalMsg("redo:empty", "server")>>)
        /\ UNCHANGED <<users, boardVars, nextId, clicks>>

\* socket.on("clear:board")
OnClearBoard(c) ==
    LET res == ClearResult(globalHistory, redoStack)
    IN  /\ Takes(c, "clear:board")
        /\ Room(ClearAudience(c), 1)
        /\ globalHistory' = res.history
        /\ redoStack' = res.redo
        /\ Deliver(ClearAudience(c), <<HistoryMsg("sync:history", res.history)>>)
        /\ UNCHANGED <<users, boardVars, nextId, clicks>>

\* socket.on("disconnect"): delete users[socket.id].  The transport is gone:
\* what was in flight on the connection, either way, is lost with the page.
OnDisconnect(c) ==
    /\ c \in users
    /\ users' = users \ {c}
    /\ PageGone(c)
    /\ UNCHANGED <<globalHistory, redoStack, nextId, clicks>>

\* ------------------------------------------- the other server program
\* io.on("connection"): users[socket.id] = {...}; no history is sent.
AltOnConnection(c) ==
    /\ c \notin users
    /\ users' = users \cup {c}
    /\ UNCHANGED <<globalHistory, redoStack, toServer, toClient, boardVars,
                   nextId, clicks>>

\* socket.on("draw:end"): push, clear redo, socket.broadcast.emit("draw:end").
AltOnDrawEnd(c) ==
    LET res == CommitResult(globalHistory, redoStack, Head(toServer[c]).stroke)
    IN  /\ Takes(c, "draw:end")
        /\ Room(Others(c), 1)
        /\ globalHistory' = res.history
        /\ redoStack' = res.redo
        /\ Deliver(Others(c), <<Head(toServer[c])>>)
        /\ UNCHANGED <<users, boardVars, nextId, clicks>>

\* socket.on("undo"): pop, push on redo if there was one, and
\* io.emit("sync:history") either way.
AltOnUndo(c) ==
    LET res == UndoResult(globalHistory, redoStack)
    IN  /\ Takes(c, "undo")
        /\ Room(Everyone, 1)
        /\ globalHistory' = res.history
        /\ redoStack' = res.redo
        /\ Deliver(Everyone, <<HistoryMsg("sync:history", res.history)>>)
        /\ UNCHANGED <<users, boardVars, nextId, clicks>>

\* socket.on("redo"): the same, the other way.
AltOnRedo(c) ==
    LET res == RedoResult(globalHistory, redoStack)
    IN  /\ Takes(c, "redo")
        /\ Room(Everyone, 1)
        /\ globalHistory' = res.history
        /\ redoStack' = res.redo
        /\ Deliver(Everyone, <<HistoryMsg("sync:history", res.history)>>)
        /\ UNCHANGED <<users, boardVars, nextId, clicks>>

\* socket.on("clear:board"): io.emit("sync:history", []).
AltOnClearBoard(c) ==
    /\ Takes(c, "clear:board")
    /\ Room(Everyone, 1)
    /\ globalHistory' = <<>>
    /\ redoStack' = <<>>
    /\ Deliver(Everyone, <<HistoryMsg("sync:history", <<>>)>>)
    /\ UNCHANGED <<users, boardVars, nextId, clicks>>

\* socket.on("disconnect")
AltOnDisconnect(c) ==
    /\ c \in users
    /\ users' = users \ {c}
    /\ PageGone(c)
    /\ UNCHANGED <<globalHistory, redoStack, nextId, clicks>>

\* draw:start and draw:move have no listener there: the event is dropped.
AltNoListener(c) ==
    /\ \/ Takes(c, "draw:start")
       \/ Takes(c, "draw:move")
    /\ UNCHANGED <<serverVars, toClient, boardVars, nextId, clicks>>

\* ----------------------------------------------------------- the system
\* What the person at page c does.
Gesture(c) ==
    \/ \E p \in Positions : _start(c, p)
    \/ \E p \in Positions, dt \in Delays : Within(c, MaxLen) /\ _move(c, p, dt)
    \/ _end(c)
    \/ \E t \in Buttons : Click(c, t)

\* The records of the run that a step of the system does not keep.
NoRecord == UNCHANGED <<log, emitted, moved, hovers, lifo, canvas>>

Next ==
    \E c \in Clients :
        \/ \E p \in Positions : _start(c, p) /\ NoRecord
        \/ \E p \in Positions, dt \in Delays :
                Within(c, MaxLen) /\ _move(c, p, dt) /\ NoRecord
        \/ _end(c) /\ NoRecord
        \/ \E t \in Buttons : Click(c, t) /\ NoRecord
        \/ OnInitHistory(c) /\ NoRecord
        \/ OnSyncHistory(c) /\ NoRecord
        \/ OnRemoteStart(c) /\ NoRecord
        \/ OnRemoteMove(c) /\ NoRecord
        \/ OnRemoteEnd(c) /\ NoRecord
        \/ OnUndoEmpty(c) /\ NoRecord
        \/ OnRedoEmpty(c) /\ NoRecord
        \/ OnConnection(c) /\ NoRecord
        \/ OnDrawStart(c) /\ NoRecord
        \/ OnDrawMove(c) /\ NoRecord
        \/ OnDrawEnd(c) /\ NoRecord
        \/ OnUndo(c) /\ NoRecord
        \/ OnRedo(c) /\ NoRecord
        \/ OnClearBoard(c) /\ NoRecord
        \/ OnDisconnect(c) /\ NoRecord

Spec == Init /\ [][Next]_vars

NextAlt ==
    \E c \in Clients :
        \/ \E p \in Positions : _start(c, p) /\ NoRecord
        \/ \E p \in Positions, dt \in Delays :
                Within(c, MaxLen) /\ _move(c, p, dt) /\ NoRecord
        \/ _end(c) /\ NoRecord
        \/ \E t \in Buttons : Click(c, t) /\ NoRecord
        \/ OnSyncHistory(c) /\ NoRecord
        \/ OnRemoteEnd(c) /\ NoRecord
        \/ AltOnConnection(c) /\ NoRecord
        \/ AltNoListener(c) /\ NoRecord
        \/ AltOnDrawEnd(c) /\ NoRecord
        \/ AltOnUndo(c) /\ NoRecord
        \/ AltOnRedo(c) /\ NoRecord
        \/ AltOnClearBoard(c) /\ NoRecord
        \/ AltOnDisconnect(c) /\ NoRecord

SpecAlt == Init /\ [][NextAlt]_vars

\* ------------------------------------------------- the system, logged
\* What the log keeps of a structural event: its name and its payload.
Entry(m) == [op |-> m.type, stroke |-> m.stroke]

\* The structural event the server takes from connection c goes to the log.
Record(c) ==
    /\ log' = Append(log, Entry(Head(toServer[c])))
    /\ UNCHANGED <<emitted, moved, hovers, lifo, canvas>>

\* Next with the log kept: the same steps, and every draw:end, undo, redo and
\* clear:board the server handles is recorded.
NextLog ==
    \E c \in Clients :
        \/ \E p \in Positions : _start(c, p) /\ NoRecord
        \/ \E p \in Positions, dt \in Delays :
                Within(c, MaxLen) /\ _move(c, p, dt) /\ NoRecord
        \/ _end(c) /\ NoRecord
        \/ \E t \in Buttons : Click(c, t) /\ NoRecord
        \/ OnInitHistory(c) /\ NoRecord
        \/ OnSyncHistory(c) /\ NoRecord
        \/ OnRemoteStart(c) /\ NoRecord
        \/ OnRemoteMove(c) /\ NoRecord
        \/ OnRemoteEnd(c) /\ NoRecord
        \/ OnUndoEmpty(c) /\ NoRecord
        \/ OnRedoEmpty(c) /\ NoRecord
        \/ OnConnection(c) /\ NoRecord
        \/ OnDrawStart(c) /\ NoRecord
        \/ OnDrawMove(c) /\ NoRecord
        \/ OnDrawEnd(c) /\ Record(c)
        \/ OnUndo(c) /\ Record(c)
        \/ OnRedo(c) /\ Record(c)
        \/ OnClearBoard(c) /\ Record(c)
        \/ OnDisconnect(c) /\ NoRecord

SpecLog == Init /\ [][NextLog]_vars

\* ------------------------------------------------- the system, cursors
\* The mousemove listener on a board with no stroke in progress:
\* this.socket.emitCursor(pos); _move returns at once.
OnMouseMove(c, p) ==
    /\ ~isDrawing[c]
    /\ hovers < MaxHovers
    /\ hovers' = hovers + 1
    /\ Emit(c, Msg("cursor:move", [id |-> Null, points |-> <<p>>], <<>>, c, 0))
    /\ UNCHANGED <<serverVars, toClient, boardVars, nextId, clicks>>

\* A cursor:move handler that answers with a snapshot to everyone.
CursorMoveSyncs(c) ==
    /\ Takes(c, "cursor:move")
    /\ Room(Everyone, 1)
    /\ Deliver(Everyone, <<HistoryMsg("sync:history", globalHistory)>>)
    /\ UNCHANGED <<serverVars, boardVars, nextId, clicks>>

\* socket.on("cursor:move"): nothing if the socket has no user; otherwise
\* socket.broadcast.emit("cursor:update", {id, name, color, x, y}).
OnCursorMove(c) ==
    /\ Takes(c, "cursor:move")
    /\ IF c \in users
          THEN /\ Room(Others(c), 1)
               /\ Deliver(Others(c),
                          <<Msg("cursor:update", Head(toServer[c]).stroke,
                                <<>>, c, 0)>>)
          ELSE UNCHANGED toClient
    /\ UNCHANGED <<serverVars, boardVars, nextId, clicks>>

\* socket.on("cursor:update"): updateRemoteCursor(cursor) redraws the cursor
\* layer; the strokes and the mirror are not touched.
OnCursorUpdate(c) ==
    /\ Gets(c, "cursor:update")
    /\ UNCHANGED <<serverVars, toServer, boardVars, nextId, clicks>>

NoHover == UNCHANGED <<log, emitted, moved, lifo, canvas>>

\* Button presses and cursor moves share the budget of a run.
Spare == clicks + hovers < MaxClicks

\* Next with the cursor of an idle page: the same steps, and the cursor
\* events.
NextCursor ==
    \E c \in Clients :
        \/ \E p \in Positions : _start(c, p) /\ NoRecord
        \/ \E p \in Positions, dt \in Delays :
                Within(c, MaxLen) /\ _move(c, p, dt) /\ NoRecord
        \/ _end(c) /\ NoRecord
        \/ \E t \in Buttons : Spare /\ Click(c, t) /\ NoRecord
        \/ \E p \in Positions : Spare /\ OnMouseMove(c, p) /\ NoHover
        \/ OnInitHistory(c) /\ NoRecord
        \/ OnSyncHistory(c) /\ NoRecord
        \/ OnRemoteStart(c) /\ NoRecord
        \/ OnRemoteMove(c) /\ NoRecord
        \/ OnRemoteEnd(c) /\ NoRecord
        \/ OnUndoEmpty(c) /\ NoRecord
        \/ OnRedoEmpty(c) /\ NoRecord
        \/ OnCursorUpdate(c) /\ NoRecord
        \/ OnConnection(c) /\ NoRecord
        \/ OnDrawStart(c) /\ NoRecord
        \/ OnDrawMove(c) /\ NoRecord
        \/ OnDrawEnd(c) /\ NoRecord
        \/ OnCursorMove(c) /\ NoRecord
        \/ OnUndo(c) /\ NoRecord
        \/ OnRedo(c) /\ NoRecord
        \/ OnClearBoard(c) /\ NoRecord
        \/ OnDisconnect(c) /\ NoRecord

SpecCursor == Init /\ [][NextCursor]_vars

\* ------------------------------------------------ the pages only draw
\* The pointer of a page moves along a path of distinct positions: the k-th
\* point of a stroke is position k.
Path(c) == Len(currentStroke[c]) + 1

\* What page c emits in a step goes to its record; a draw:end starts the
\* record afresh.
Note(c) ==
    emitted' = [emitted EXCEPT ![c] =
        IF Len(toServer'[c]) > Len(toServer[c])
            THEN IF Last(toServer'[c]).type = "draw:end"
                    THEN <<>> ELSE Append(@, Last(toServer'[c]))
            ELSE @]

\* The pointer-moves page c has received since its last pointer-down.
Down(c) == moved' = [moved EXCEPT ![c] = 0]
Moved(c) == moved' = [moved EXCEPT ![c] = @ + 1]
Up(c) == UNCHANGED moved

NoTrial == UNCHANGED <<log, hovers, lifo, canvas>>

\* Two pages that draw strokes of up to MaxPoints points and press no button,
\* on connections that stay.
NextBoard ==
    \E c \in Clients :
        \/ _start(c, 1) /\ Note(c) /\ Down(c) /\ NoTrial
        \/ \E dt \in Delays :
                /\ Within(c, MaxPoints)
                /\ _move(c, Path(c), dt) /\ Note(c) /\ Moved(c) /\ NoTrial
        \/ _end(c) /\ Note(c) /\ Up(c) /\ NoTrial
        \/ OnInitHistory(c) /\ NoRecord
        \/ OnSyncHistory(c) /\ NoRecord
        \/ OnRemoteStart(c) /\ NoRecord
        \/ OnRemoteMove(c) /\ NoRecord
        \/ OnRemoteEnd(c) /\ NoRecord
        \/ OnConnection(c) /\ NoRecord
        \/ OnDrawStart(c) /\ NoRecord
        \/ OnDrawMove(c) /\ NoRecord
        \/ OnDrawEnd(c) /\ NoRecord

SpecBoard == Init /\ [][NextBoard]_vars

\* ------------------------------------- undo and redo on a given History
\* A committed stroke with id i.
Dot(i) == [id |-> i, points |-> <<CHOOSE p \in Positions : TRUE>>]

\* The Histories of at most MaxHistory strokes, each id at most once.
Histories ==
    LET Orders == UNION {[1..n -> 1..MaxHistory] : n \in 0..MaxHistory}
    IN  {[k \in DOMAIN o |-> Dot(o[k])] :
            o \in {f \in Orders : \A a, b \in DOMAIN f : a # b => f[a] # f[b]}}

InitLifo ==
    /\ Started
    /\ lifo \in {Trial(h) : h \in Histories}
    /\ canvas = Sitting(Blank, Array(<<>>))

\* The undo handler runs on non-empty History, before any redo of the run.
LifoUndo ==
    LET res == UndoResult(lifo.history, lifo.redo)
    IN  /\ lifo.redos = 0
        /\ lifo.history # <<>>
        /\ lifo' = [lifo EXCEPT !.undos = @ + 1,
                                !.history = res.history, !.redo = res.redo]
        /\ UNCHANGED <<sysVars, log, emitted, moved, hovers, canvas>>

\* The redo handler runs on a non-empty Redo Stack.
LifoRedo ==
    LET res == RedoResult(lifo.history, lifo.redo)
    IN  /\ lifo.redo # <<>>
        /\ lifo' = [lifo EXCEPT !.redos = @ + 1,
                                !.history = res.history, !.redo = res.redo]
        /\ UNCHANGED <<sysVars, log, emitted, moved, hovers, canvas>>

NextLifo == LifoUndo \/ LifoRedo

SpecLifo == InitLifo /\ [][NextLifo]_vars

\* ------------------------------------------------- syncHistory alone
\* _drawSmooth(ctx, pts, ...): a path is painted on the layer, unless there
\* are fewer than two points.
_drawSmooth(ctx, pts) ==
    IF Len(pts) < MinPath THEN ctx ELSE Append(ctx, pts)

\* for (const s of this.strokes) this._drawSmooth(this.hctx, s.points, ...)
RECURSIVE Replayed(_, _)
Replayed(ctx, h) ==
    IF h = <<>> THEN ctx
    ELSE Replayed(_drawSmooth(ctx, Head(h).points), Tail(h))

\* clearRect over the whole layer.
clearRect(ctx) == <<>>

\* A syncHistory that repaints without clearing the history layer first.
SyncOnTop(b, history) ==
    LET h == IF history.array THEN history.items ELSE <<>>
    IN  Board(h, Replayed(b.hctx, h), clearRect(b.rctx), clearRect(b.lctx))

\* syncHistory(history) on the whole board: a history that is not an array
\* counts as []; the mirror is replaced, the history layer cleared and
\* repainted stroke by stroke, the remote and live layers cleared.
SyncBoard(b, history) ==
    LET h == IF history.array THEN history.items ELSE <<>>
    IN  Board(h, Replayed(clearRect(b.hctx), h), clearRect(b.rctx),
              clearRect(b.lctx))

\* Strokes of one point (nothing to paint) and of two.
Marks ==
    LET p == CHOOSE q \in Positions : TRUE
    IN  {[id |-> i, points |-> pts] : i \in 1..MaxSnapshot, pts \in {<<p>>, <<p, p>>}}

\* Sequences of at most MaxSnapshot strokes, each id at most once.
Snapshots ==
    {h \in UNION {[1..n -> Marks] : n \in 0..MaxSnapshot} :
        \A a, b \in DOMAIN h : a # b => h[a].id # h[b].id}

\* What may be painted on a layer: nothing, or up to two paths.
Layers ==
    LET path == [k \in 1..MinPath |-> CHOOSE q \in Positions : TRUE]
    IN  {<<>>, <<path>>, <<path, path>>}

InitSync ==
    /\ Started
    /\ lifo = Trial(<<>>)
    /\ canvas \in {Sitting(Board(m, h, r, l), g) :
                        m \in Snapshots, h \in Layers, r \in Layers, l \in Layers,
                        g \in {Array(x) : x \in Snapshots} \cup {NotArray}}

\* syncHistory(snapshot) on the board and on the blank one.
SyncCall ==
    /\ canvas.calls < 2
    /\ canvas' = [canvas EXCEPT
            !.board = SyncBoard(@, canvas.snapshot),
            !.other = SyncBoard(@, canvas.snapshot),
            !.calls = @ + 1,
            !.once = IF canvas.calls = 0
                        THEN SyncBoard(canvas.board, canvas.snapshot) ELSE @]
    /\ UNCHANGED <<sysVars, log, emitted, moved, hovers, lifo>>

NextSync == SyncCall

SpecSync == InitSync /\ [][NextSync]_vars

\* ------------------------------------------------------------ properties
\* A step in which the server handles the event of type t that connection c
\* sent: the event leaves the head of c's channel and c stays connected.
Handles(c, t) ==
    /\ c \in users
    /\ c \in users'
    /\ toServer[c] # <<>>
    /\ Head(toServer[c]).type = t
    /\ toServer'[c] = Tail(toServer[c])

\* A step in which board c processes the event of type t at the head of its
\* socket.
Processes(c, t) ==
    /\ c \in users'
    /\ toClient[c] # <<>>
    /\ Head(toClient[c]).type = t
    /\ toClient'[c] = Tail(toClient[c])

\* Socket d is sent exactly msgs, in order, in this step.
Sent(d, msgs) == toClient'[d] = toClient[d] \o msgs
\* Socket d is sent an event of type t in this step.
SentType(d, t) ==
    /\ Len(toClient'[d]) > Len(toClient[d])
    /\ \E i \in (Len(toClient[d]) + 1)..Len(toClient'[d]) :
            toClient'[d][i].type = t

Sync(h) == HistoryMsg("sync:history", h)

\* C1 (commit): a draw:end carrying stroke s, handled with History = h and any
\* Redo Stack, leaves History = h followed by s and the Redo Stack empty.
C1_Commit ==
    [][\A c \in Clients :
        Handles(c, "draw:end") =>
            /\ globalHistory' = Append(globalHistory, Head(toServer[c]).stroke)
            /\ redoStack' = <<>>]_vars

\* A second stroke has been committed behind the first, and its draw:end and
\* snapshot are on their way.
C1_Witness ==
    /\ Len(globalHistory) = 2
    /\ redoStack = <<>>
    /\ \E c \in users :
        /\ Len(toClient[c]) = 2
        /\ toClient[c][1].type = "draw:end"
        /\ toClient[c][1].stroke = globalHistory[2]
        /\ toClient[c][2] = Sync(globalHistory)

\* C2 (undo, non-empty History): an undo handled with History = h followed by
\* s and Redo Stack = r leaves History = h and Redo Stack = r followed by s,
\* and sync:history carrying exactly h is sent to every connected socket, the
\* requester's included.
C2_Undo ==
    [][\A c \in Clients :
        (Handles(c, "undo") /\ globalHistory # <<>>) =>
            /\ globalHistory' = Front(globalHistory)
            /\ redoStack' = Append(redoStack, Last(globalHistory))
            /\ \A d \in users : Sent(d, <<Sync(Front(globalHistory))>>)]_vars

\* An undo has left a stroke in History and one on the Redo Stack, and both
\* pages are being sent the new History.
C2_Witness ==
    /\ users = Clients
    /\ globalHistory # <<>>
    /\ redoStack # <<>>
    /\ \A d \in users :
        toClient[d] # <<>> /\ Last(toClient[d]) = Sync(globalHistory)

\* C3 (empty operation): an undo with empty History (a redo with empty Redo
\* Stack) changes neither, sends undo:empty (redo:empty) to the requester
\* alone and nothing to any other socket; and undo:empty / redo:empty is only
\* ever sent by a step that changed neither.
C3_EmptyOperation ==
    [][\A c \in Clients :
        /\ (Handles(c, "undo") /\ globalHistory = <<>>) =>
                /\ UNCHANGED <<globalHistory, redoStack>>
                /\ Sent(c, <<SignalMsg("undo:empty", "server")>>)
                /\ \A d \in Clients \ {c} : toClient'[d] = toClient[d]
        /\ (Handles(c, "redo") /\ redoStack = <<>>) =>
                /\ UNCHANGED <<globalHistory, redoStack>>
                /\ Sent(c, <<SignalMsg("redo:empty", "server")>>)
                /\ \A d \in Clients \ {c} : toClient'[d] = toClient[d]
        /\ (SentType(c, "undo:empty") \/ SentType(c, "redo:empty")) =>
                UNCHANGED <<globalHistory, redoStack>>]_vars

\* C4 (clear): a clear:board handled in any state empties History and the
\* Redo Stack and sends sync:history with the empty sequence to every
\* connected socket, the issuer's included.
C4_Clear ==
    [][\A c \in Clients :
        Handles(c, "clear:board") =>
            /\ globalHistory' = <<>>
            /\ redoStack' = <<>>
            /\ \A d \in users : Sent(d, <<Sync(<<>>)>>)]_vars

\* Two strokes were committed and mirrored; a page is now being sent the
\* History an undo left (one stroke, the other on the Redo Stack) and then
\* the empty History of the clear that followed.
C4_Witness ==
    /\ globalHistory = <<>>
    /\ redoStack = <<>>
    /\ users = Clients
    /\ \A c \in Clients : toServer[c] = <<>>
    /\ \E d \in users :
        /\ Len(strokes[d]) = 2
        /\ strokes[d][1].id # strokes[d][2].id
        /\ toClient[d] = <<Sync(Front(strokes[d])), Sync(<<>>)>>

\* No event is in flight to or from a connected socket.
Quiet == \A c \in users : toServer[c] = <<>> /\ toClient[c] = <<>>

\* C5 (convergence): once every event sent on the connections has been
\* delivered and processed, the mirror of every connected board equals the
\* server's History.
C5_Convergence ==
    Quiet => \A c \in users : strokes[c] = globalHistory

\* Both pages are connected and quiet after a commit and an undo.
C5_Witness ==
    /\ users = Clients
    /\ Quiet
    /\ globalHistory # <<>>
    /\ redoStack # <<>>

\* C6 (join): on connection the server sends init:history, carrying the
\* History of that moment, to the new socket and to no other; when the board
\* processes it, its mirror becomes that snapshot.
C6_Join ==
    [][\A c \in Clients :
        /\ (c \notin users /\ c \in users') =>
                /\ Sent(c, <<HistoryMsg("init:history", globalHistory)>>)
                /\ \A d \in Clients \ {c} : toClient'[d] = toClient[d]
        /\ Processes(c, "init:history") =>
                strokes'[c] = Head(toClient[c]).history]_vars

\* A page that drew before its socket connected joins after another page's
\* commit: its mirror is not empty and differs from the snapshot it is about
\* to process.
C6_Witness ==
    /\ globalHistory # <<>>
    /\ \E c \in users :
        /\ toClient[c] # <<>>
        /\ Head(toClient[c]) = HistoryMsg("init:history", globalHistory)
        /\ strokes[c] # <<>>
        /\ strokes[c] # globalHistory

\* C7 (commit fan-out): for every draw:end the server handles, every connected
\* socket, the sender's included, is sent the stroke as draw:end and, after it,
\* sync:history carrying the History that ends with that stroke.
C7_CommitFanOut ==
    [][\A c \in Clients :
        Handles(c, "draw:end") =>
            /\ Last(globalHistory') = Head(toServer[c]).stroke
            /\ \A d \in users :
                Sent(d, <<Head(toServer[c]), Sync(globalHistory')>>)]_vars

\* The live preview events in a channel, oldest first.
RECURSIVE Previews(_)
Previews(q) ==
    IF q = <<>> THEN <<>>
    ELSE (IF Head(q).type \in {"draw:start", "draw:move"}
             THEN <<Head(q)>> ELSE <<>>) \o Previews(Tail(q))

\* The ranks of the events of q that page c emitted.
RECURSIVE From(_, _)
From(q, c) ==
    IF q = <<>> THEN <<>>
    ELSE (IF Head(q).from = c THEN <<Head(q).seq>> ELSE <<>>) \o From(Tail(q), c)

\* The previews of page c that are on their way to board d, oldest first:
\* those already relayed, then those the server has yet to handle.
InFlight(c, d) ==
    From(Previews(toClient[d]), c) \o From(Previews(toServer[c]), c)

Increasing(q) == \A i, j \in 1..Len(q) : i < j => q[i] < q[j]

\* C8 (preview fan-out): every draw:start and draw:move the server handles is
\* relayed unchanged to every other connected socket and not to the sender's;
\* the previews of one page travel to each board in the order of emission.
C8_PreviewFanOut ==
    /\ [][\A c \in Clients :
            (Handles(c, "draw:start") \/ Handles(c, "draw:move")) =>
                /\ \A d \in users \ {c} : Sent(d, <<Head(toServer[c])>>)
                /\ toClient'[c] = toClient[c]]_vars
    /\ [](\A c \in Clients : \A d \in Clients \ {c} :
            Increasing(InFlight(c, d)))

\* The start and the move of one stroke are both on their way to the other
\* board.
C8_Witness ==
    \E c \in Clients : \E d \in users \ {c} :
        /\ Len(toClient[d]) = 2
        /\ toClient[d][1].type = "draw:start"
        /\ toClient[d][2].type = "draw:move"
        /\ toClient[d][1].from = c
        /\ toClient[d][2].from = c
        /\ toClient[d][2].stroke.id = toClient[d][1].stroke.id

\* C9 (history uniqueness): no stroke id appears twice in History.
C9_HistoryUnique ==
    \A i, j \in 1..Len(globalHistory) :
        i # j => globalHistory[i].id # globalHistory[j].id

\* Two strokes are in History after an undo and a redo.
C9_Witness ==
    /\ Len(globalHistory) = 2
    /\ clicks = 2
    /\ \E c \in users :
        toClient[c] = <<Sync(Front(globalHistory)), Sync(globalHistory)>>

\* A step in which the server handles a structural event.
Structural(c) ==
    \/ Handles(c, "draw:end")
    \/ Handles(c, "undo")
    \/ Handles(c, "redo")
    \/ Handles(c, "clear:board")

\* C10 (undo / redo round trip): an undo on non-empty History leaves a
\* timeline from which the next structural step, if it is a redo, restores
\* both History and the Redo Stack: the redo handler maps the timeline the
\* undo left back to the one it found, and no step between the two (none of
\* them structural) touches the timeline.
C10_RoundTrip ==
    [][/\ \A c \in Clients :
            /\ (Handles(c, "undo") /\ globalHistory # <<>>) =>
                    RedoResult(globalHistory', redoStack')
                        = Timeline(globalHistory, redoStack)
            /\ Handles(c, "redo") =>
                    Timeline(globalHistory', redoStack')
                        = RedoResult(globalHistory, redoStack)
       /\ (\A c \in Clients : ~Structural(c)) =>
            UNCHANGED <<globalHistory, redoStack>>]_vars

\* An undo and then a redo have been handled: a page is being sent the
\* History without its last stroke and then the History with it again, and
\* the Redo Stack is as before.
C10_Witness ==
    /\ globalHistory # <<>>
    /\ redoStack = <<>>
    /\ \E c \in users :
        /\ toClient[c] = <<Sync(Front(globalHistory)), Sync(globalHistory)>>
        /\ strokes[c] = globalHistory

\* The timeline a structural event e leaves when the server handles it on
\* timeline t.
Apply(t, e) ==
    CASE e.op = "draw:end" -> CommitResult(t.history, t.redo, e.stroke)
      [] e.op = "undo" -> UndoResult(t.history, t.redo)
      [] e.op = "redo" -> RedoResult(t.history, t.redo)
      [] e.op = "clear:board" -> ClearResult(t.history, t.redo)

\* The timeline after the events of l, handled in order from the empty one.
RECURSIVE Replay(_)
Replay(l) ==
    IF l = <<>> THEN Timeline(<<>>, <<>>)
    ELSE Apply(Replay(Front(l)), Last(l))

\* The timeline the i-th logged event was handled on.
Before(l, i) == Replay(SubSeq(l, 1, i - 1))

\* In l, event i is an undo that took a stroke off History, event j a later
\* commit, and no undo follows that commit.
UndoThenCommit(l, i, j) ==
    /\ i < j
    /\ l[i].op = "undo"
    /\ Before(l, i).history # <<>>
    /\ l[j].op = "draw:end"
    /\ \A k \in (j + 1)..Len(l) : l[k].op # "undo"

C12_Lifo ==
    LET n == Len(lifo.start)
        k == lifo.undos
        j == lifo.redos
    IN  /\ j <= k /\ k <= n
        /\ lifo.history = SubSeq(lifo.start, 1, n - k + j)
        /\ Len(lifo.redo) = k - j

\* n = 2, k = 2, j = 1: History is the first committed stroke alone and one
\* stroke is left on the Redo Stack.
C12_Witness ==
    /\ Len(lifo.start) = 2
    /\ lifo.undos = 2
    /\ lifo.redos = 1
    /\ lifo.history = <<lifo.start[1]>>
    /\ Len(lifo.redo) = 1

\* C13 (no duplication in the client mirror): in every reachable state, the
\* states between a local pointer-up and the arrival of the server's draw:end
\* and sync:history included, no stroke id appears twice in a board's mirror.
C13_MirrorUnique ==
    \A c \in Clients : \A i, j \in 1..Len(strokes[c]) :
        i # j => strokes[c][i].id # strokes[c][j].id

\* The points of the events of q, in order.
RECURSIVE PointsOf(_)
PointsOf(q) ==
    IF q = <<>> THEN <<>> ELSE Head(q).stroke.points \o PointsOf(Tail(q))

\* The previews page c has emitted for the stroke it is drawing.
Current(c) ==
    LET Mine(m) == m.stroke.id = localTempId[c]
    IN  SelectSeq(emitted[c], Mine)

\* The number of points the owner's stroke had when it emitted preview m.
Index(m) == m.seq - Rank(m.stroke.id, 0)

\* C14 (move payload completeness): the points of the draw:start and of the
\* draw:move events a page has emitted for the stroke it is drawing are, in
\* order, the points of that stroke up to the last emitted one; and the
\* in-progress entry another board keeps for that stroke holds the owner's
\* points from the first on, none skipped.
C14_MovePayload ==
    \A c \in Clients :
        isDrawing[c] =>
            /\ PointsOf(Current(c))
                    = SubSeq(currentStroke[c], 1, Index(Last(Current(c))))
            /\ \A d \in Clients \ {c} : \A s \in remoteStrokes[d] :
                    s.id = localTempId[c] =>
                        s.points = SubSeq(currentStroke[c], 1, Len(s.points))

\* A step in which page c emits an event of type t.
Emits(c, t) ==
    /\ Len(toServer'[c]) > Len(toServer[c])
    /\ Last(toServer'[c]).type = t

\* C15 (move throttle): with the clock in integer milliseconds, a draw:move is
\* emitted more than 30 ms after the page's previous draw:move, within a stroke
\* and from one stroke to the next (lastEmit is the time of the previous
\* emission and becomes the time of this one); and every pointer-move received
\* while drawing has appended its point, emitted or not: the stroke holds the
\* point of the pointer-down and one point per pointer-move since.
C15_Throttle ==
    /\ [][\A c \in Clients :
            Emits(c, "draw:move") =>
                /\ lastEmit'[c] - lastEmit[c] > ThrottleMs
                /\ Last(currentStroke'[c]) = Last(toServer'[c]).stroke.points[1]]_vars
    /\ [](\A c \in Clients :
            isDrawing[c] => Len(currentStroke[c]) = moved[c] + 1)

\* In its second stroke a page has received two pointer-moves: the first, 30
\* ms after the move it emitted in the stroke before, was not emitted, the
\* second was.
C15_Witness ==
    \E c \in Clients :
        /\ isDrawing[c]
        /\ localTempId[c] = 2
        /\ moved[c] = 2
        /\ currentStroke[c] = <<1, 2, 3>>
        /\ PointsOf(Current(c)) = <<1, 3>>
        /\ lastEmit[c] = StartTime + ThrottleMs + 1

\* C16 (remote in-progress entries are cleaned up): when a board processes a
\* draw:end it keeps no in-progress entry for that stroke id; and an entry is
\* deleted when the page that originated the stroke disconnects, so that a
\* board whose every peer has disconnected, with every event delivered,
\* keeps no entry at all.
C16_RemoteCleanup ==
    /\ [][\A d \in Clients :
            Processes(d, "draw:end") =>
                \A s \in remoteStrokes'[d] :
                    s.id # Head(toClient[d]).stroke.id]_vars
    /\ [](\A d \in Clients :
            (users = {d} /\ Quiet) => remoteStrokes[d] = {})

\* C17 (syncHistory is idempotent): for any board and any snapshot, a second
\* syncHistory with the same snapshot leaves the board (mirror, history
\* layer, cleared remote-preview and local-live layers) as the first left it;
\* and the mirror and the history layer after the call are those a blank
\* board gets from the same snapshot: they depend on the snapshot alone.
C17_SyncIdempotent ==
    /\ canvas.calls = 2 => canvas.board = canvas.once
    /\ canvas.calls >= 1 =>
            /\ canvas.board.strokes = canvas.other.strokes
            /\ canvas.board.hctx = canvas.other.hctx
            /\ canvas.board.rctx = <<>>
            /\ canvas.board.lctx = <<>>

\* A board with another mirror and paint on all three layers has been given,
\* twice, a snapshot of two strokes of which one is too short to paint.
C17_Witness ==
    /\ canvas.calls = 2
    /\ Len(canvas.snapshot.items) = 2
    /\ Len(canvas.board.hctx) = 1
    /\ canvas.board.strokes = canvas.snapshot.items
    /\ canvas.before.strokes # <<>>
    /\ canvas.before.strokes # canvas.snapshot.items
    /\ Len(canvas.before.hctx) = 2
    /\ canvas.before.rctx # <<>>
    /\ canvas.before.lctx # <<>>
    /\ canvas.once = canvas.board

\* The i-th logged event changed the timeline or was a commit or a clear: the
\* server sent sync:history for it.
Synced(l, i) ==
    \/ l[i].op \in {"draw:end", "clear:board"}
    \/ l[i].op = "undo" /\ Before(l, i).history # <<>>
    \/ l[i].op = "redo" /\ Before(l, i).redo # <<>>

\* The History after each logged event the server sent sync:history for, in
\* the order of the log.
RECURSIVE SyncLog(_, _)
SyncLog(l, i) ==
    IF i > Len(l) THEN <<>>
    ELSE (IF Synced(l, i) THEN <<Replay(SubSeq(l, 1, i)).history>> ELSE <<>>)
            \o SyncLog(l, i + 1)

\* The payloads of the sync:history events in channel q, oldest first.
RECURSIVE QueuedSnapshots(_)
QueuedSnapshots(q) ==
    IF q = <<>> THEN <<>>
    ELSE (IF Head(q).type = "sync:history" THEN <<Head(q).history>> ELSE <<>>)
            \o QueuedSnapshots(Tail(q))

\* a is the end of b.
IsSuffix(a, b) ==
    /\ Len(a) <= Len(b)
    /\ a = SubSeq(b, Len(b) - Len(a) + 1, Len(b))

\* C18 (serialized structural mutations): the server handles the commits,
\* undos, redos and clears of all connections one event per step, each on the
\* timeline the one before left; so the timeline is always the replay of the
\* log from the empty timeline, the sync:history sent for the k-th logged
\* event carries the History after events 1..k, and the snapshots on their
\* way to any board are a final stretch of that sequence, in its order.
C18_Serialized ==
    /\ [](Timeline(globalHistory, redoStack) = Replay(log))
    /\ [](\A d \in Clients : IsSuffix(QueuedSnapshots(toClient[d]), SyncLog(log, 1)))
    /\ [][\A c \in Clients :
            Structural(c) =>
                /\ \A e \in Clients \ {c} : toServer'[e] = toServer[e]
                /\ Timeline(globalHistory', redoStack')
                        = Apply(Timeline(globalHistory, redoStack),
                                Entry(Head(toServer[c])))
                /\ Synced(log', Len(log')) =>
                        \A d \in users :
                            /\ Len(toClient'[d]) > Len(toClient[d])
                            /\ Last(toClient'[d]).type = "sync:history"
                            /\ Last(toClient'[d]).history
                                    = Replay(log').history]_vars

\* Both pages have a structural event waiting at the server while the
\* snapshot of the second handled event is on its way to both.
C18_Witness ==
    /\ users = Clients
    /\ Len(log) = 2
    /\ \A c \in Clients :
        /\ toServer[c] # <<>>
        /\ Head(toServer[c]).type \in Buttons \cup {"draw:end"}
        /\ toClient[c] # <<>>
        /\ Last(toClient[c]).type = "sync:history"
        /\ Last(toClient[c]).history = Replay(log).history

\* The draw:start events among those page c has emitted since its last
\* draw:end.
Starts(c) ==
    LET IsStart(m) == m.type = "draw:start"
    IN  SelectSeq(emitted[c], IsStart)

\* C19 (exactly-once commit per local stroke): the draw:start and draw:end
\* events a page emits alternate, draw:start first: no draw:start is emitted
\* while one is unanswered, and a draw:end follows exactly one draw:start,
\* carries its id and every point captured since it; a pointer-up on an idle
\* board emits nothing.
C19_ExactlyOnce ==
    [][\A c \in Clients :
        /\ Emits(c, "draw:start") => Starts(c) = <<>>
        /\ Emits(c, "draw:end") =>
                /\ isDrawing[c]
                /\ Len(Starts(c)) = 1
                /\ Last(toServer'[c]).stroke.id = Starts(c)[1].stroke.id
                /\ Last(toServer'[c]).stroke.points = currentStroke[c]
                /\ Len(currentStroke[c]) = moved[c] + 1]_vars

\* A step in which the server handles a connection, a disconnect, or an event
\* of connection c that is not structural.
NonStructural(c) ==
    \/ c \notin users /\ c \in users'
    \/ c \in users /\ c \notin users'
    \/ Handles(c, "draw:start")
    \/ Handles(c, "draw:move")
    \/ Handles(c, "cursor:move")

\* C20 (non-structural events leave the timeline untouched): handling a
\* connection, a disconnect, draw:start, draw:move or cursor:move leaves
\* History and the Redo Stack unchanged and sends no sync:history; History or
\* the Redo Stack change, and sync:history is sent, only in a step that
\* handles draw:end, undo, redo or clear:board.
C20_Frame ==
    [][/\ \A c \in Clients :
            NonStructural(c) =>
                /\ UNCHANGED <<globalHistory, redoStack>>
                /\ \A d \in Clients : ~SentType(d, "sync:history")
       /\ (\/ globalHistory' # globalHistory
           \/ redoStack' # redoStack
           \/ \E d \in Clients : SentType(d, "sync:history")) =>
                \E c \in Clients : Structural(c)]_vars

\* With a stroke in History and one on the Redo Stack, the server has relayed
\* a cursor:move: the cursor:update follows the undo's snapshot on its way to
\* a board.
C20_Witness ==
    /\ Len(globalHistory) = 1
    /\ Len(redoStack) = 1
    /\ \E d \in users :
        /\ Len(toClient[d]) = 2
        /\ toClient[d][1] = Sync(globalHistory)
        /\ toClient[d][2].type = "cursor:update"

====
